---- MODULE Spec2Model ----
(***************************************************************************)
(* Model of the IntelX credential scanner (src/main.py): the search and    *)
(* document-level dedup, the resume load of the dedup store, the           *)
(* fetch-with-retry loop, the per-line credential extraction, and the      *)
(* output writer for the txt, csv and json formats.                        *)
(*                                                                         *)
(* Text is a sequence of one-character strings.  A destination file is     *)
(* either absent, or text, or an intact json document (kept as the value   *)
(* json.dump serialised; JsonDump gives its text when another format       *)
(* reads or appends to it).                                                *)
(***************************************************************************)
EXTENDS Integers, Sequences, FiniteSets, TLC

\* ------------------------------------------------------------------------
\* Characters
\* ------------------------------------------------------------------------
LF == "\n"
CR == "\r"
TAB == "\t"

LowerLetters ==
    << "a","b","c","d","e","f","g","h","i","j","k","l","m",
       "n","o","p","q","r","s","t","u","v","w","x","y","z" >>

UpperLetters ==
    << "A","B","C","D","E","F","G","H","I","J","K","L","M",
       "N","O","P","Q","R","S","T","U","V","W","X","Y","Z" >>

Range(s) == { s[i] : i \in DOMAIN s }

\* [a-zA-Z]
IsLetter(c) == c \in Range(LowerLetters) \cup Range(UpperLetters)

\* \s of the re module and the characters str.strip() removes
IsSpace(c) == c \in { " ", TAB, LF, CR }

\* [^/:\s]
IsEmailChar(c) == c \notin { "/", ":" } /\ ~IsSpace(c)

\* case folding of re.IGNORECASE
ToLower(c) ==
    IF c \in Range(UpperLetters)
    THEN LowerLetters[CHOOSE i \in DOMAIN UpperLetters : UpperLetters[i] = c]
    ELSE c

SetMin(S) == CHOOSE x \in S : \A y \in S : x <= y
SetMax(S) == CHOOSE x \in S : \A y \in S : x >= y

\* str.strip()
Strip(s) ==
    LET keep == { i \in DOMAIN s : ~IsSpace(s[i]) }
    IN  IF keep = {} THEN << >> ELSE SubSeq(s, SetMin(keep), SetMax(keep))

\* str.rstrip(':')
RStripColon(s) ==
    LET keep == { i \in DOMAIN s : s[i] # ":" }
    IN  IF keep = {} THEN << >> ELSE SubSeq(s, 1, SetMax(keep))

\* the n-th smallest element of a set of integers
Nth(S, n) == CHOOSE x \in S : Cardinality({ y \in S : y < x }) = n - 1

\* str.split(sep) for a one-character separator: the pieces between the
\* separators, empty pieces included
SplitOn(s, sep) ==
    LET cuts == { 0, Len(s) + 1 } \cup { j \in DOMAIN s : s[j] = sep }
    IN  [ n \in 1..(Cardinality(cuts) - 1) |->
            SubSeq(s, Nth(cuts, n) + 1, Nth(cuts, n + 1) - 1) ]

\* a place of a character sequence that holds no character
NoChar == ""

IsChar(c) == c # NoChar

\* the sequence where every character s[j] is replaced by the characters of
\* the pair pairs[j] (a pair may hold NoChar)
ReplaceEach(s, pairs) ==
    SelectSeq([ k \in 1..(2 * Len(s)) |-> pairs[(k + 1) \div 2][2 - (k % 2)] ], IsChar)

RECURSIVE Concat(_)
Concat(ss) == IF ss = << >> THEN << >> ELSE Head(ss) \o Concat(Tail(ss))

\* ------------------------------------------------------------------------
\* CRED_PATTERN = ([^/:\s]+@[^/:\s]+\.[a-zA-Z]{2,}):(.+)$
\* ------------------------------------------------------------------------

\* e matches [^/:\s]+@[^/:\s]+\.[a-zA-Z]{2,} in full
EmailMatches(e) ==
    /\ \A i \in DOMAIN e : IsEmailChar(e[i])
    /\ \E d \in DOMAIN e :
          /\ e[d] = "."
          /\ Len(e) - d >= 2
          /\ \A k \in (d + 1)..Len(e) : IsLetter(e[k])
          /\ \E a \in 2..(d - 2) : e[a] = "@"

\* the pattern matches with group 1 = line[i..c-1], ':' at c and group 2 the
\* non-empty rest of the line ('.' excludes only the newline, '$' is the end)
MatchesAt(line, i, c) ==
    /\ i < c
    /\ c < Len(line)
    /\ line[c] = ":"
    /\ EmailMatches(SubSeq(line, i, c - 1))
    /\ \A k \in (c + 1)..Len(line) : line[k] # LF

NoMatch == [found |-> FALSE, start |-> 0, email |-> << >>, password |-> << >>]

\* CRED_PATTERN.search(line): the match at the leftmost start position
CredSearch(line) ==
    LET starts == { i \in DOMAIN line : \E c \in DOMAIN line : MatchesAt(line, i, c) }
    IN  IF starts = {} THEN NoMatch
        ELSE LET i == SetMin(starts)
                 c == CHOOSE c \in DOMAIN line : MatchesAt(line, i, c)
             IN  [found    |-> TRUE,
                  start    |-> i,
                  email    |-> SubSeq(line, i, c - 1),
                  password |-> SubSeq(line, c + 1, Len(line))]

\* cred_match.group(0)
Group0(m) == m.email \o << ":" >> \o m.password

\* re.search(target, line, re.IGNORECASE), the target unescaped: its '.'
\* matches any character
ContainsTargetAsPattern(line, tgt) ==
    \E i \in 1..(Len(line) - Len(tgt) + 1) :
        \A j \in DOMAIN tgt :
            tgt[j] = "." \/ ToLower(line[i + j - 1]) = ToLower(tgt[j])

\* re.search(escaped_target, line, re.IGNORECASE): the target as a literal,
\* case-insensitive substring
ContainsTarget(line, tgt) ==
    \E i \in 1..(Len(line) - Len(tgt) + 1) :
        \A j \in DOMAIN tgt : ToLower(line[i + j - 1]) = ToLower(tgt[j])

\* ------------------------------------------------------------------------
\* Text files
\* ------------------------------------------------------------------------

\* open(output_file, 'r') without newline='': universal newlines, every
\* \r\n and every lone \r is read as \n
UnivNewlines(t) ==
    LET translated == [ j \in DOMAIN t |->
                          IF t[j] = LF /\ j > 1 /\ t[j - 1] = CR THEN NoChar
                          ELSE IF t[j] = CR THEN LF
                          ELSE t[j] ]
    IN  SelectSeq(translated, IsChar)

\* "for line in f": the lines of the translated text (a last line with no
\* newline is a line too, nothing follows a final newline)
FileLines(t) ==
    LET parts == SplitOn(UnivNewlines(t), LF)
    IN  IF parts[Len(parts)] = << >> THEN SubSeq(parts, 1, Len(parts) - 1)
        ELSE parts

\* ------------------------------------------------------------------------
\* csv module, default (excel) dialect
\* ------------------------------------------------------------------------
CsvHeader == << <<"u","r","l">>, <<"e","m","a","i","l">>,
                <<"p","a","s","s","w","o","r","d">>,
                <<"s","o","u","r","c","e">> >>

EmailCol == CsvHeader[2]
PasswordCol == CsvHeader[3]

\* str(None), what an f-string renders for a missing column value
NoneText == <<"N","o","n","e">>

DoubleQuotes(f) ==
    ReplaceEach(f, [ j \in DOMAIN f |->
                       IF f[j] = "\"" THEN << "\"", "\"" >> ELSE << f[j], NoChar >> ])

\* QUOTE_MINIMAL: a field holding the delimiter, the quote character or a
\* character of the line terminator is quoted, its quotes doubled
CsvField(f) ==
    IF \E i \in DOMAIN f : f[i] \in { ",", "\"", CR, LF }
    THEN << "\"" >> \o DoubleQuotes(f) \o << "\"" >>
    ELSE f

RECURSIVE JoinComma(_)
JoinComma(fs) ==
    IF Len(fs) = 0 THEN << >>
    ELSE IF Len(fs) = 1 THEN Head(fs)
    ELSE Head(fs) \o << "," >> \o JoinComma(Tail(fs))

\* writer.writerow(fields) on a file opened with newline=''
CsvRow(fields) ==
    JoinComma([ i \in DOMAIN fields |-> CsvField(fields[i]) ]) \o << CR, LF >>

\* csv.reader: the parser before the first character (st is the parser
\* state: sr start of record, sf start of field, if in field, iq in quoted
\* field, qq quote met in quoted field; fld is the field, row the record so
\* far, rows the records read)
CsvStates == { "sr", "sf", "if", "iq", "qq" }

CsvStart == [st |-> "sr", fld |-> << >>, row |-> << >>, rows |-> << >>]

\* csv.reader: the parser s after character c
CsvStep(s, c) ==
    LET endRow == [st |-> "sr", fld |-> << >>, row |-> << >>,
                   rows |-> Append(s.rows, Append(s.row, s.fld))]
        endFld == [st |-> "sf", fld |-> << >>, row |-> Append(s.row, s.fld),
                   rows |-> s.rows]
        more == [s EXCEPT !.fld = Append(s.fld, c)]
    IN  CASE s.st = "sr" /\ c = LF -> [s EXCEPT !.rows = Append(s.rows, << >>)]
          [] s.st = "sf" /\ c = LF -> endRow
          [] s.st \in {"sr", "sf"} /\ c = "\"" -> [s EXCEPT !.st = "iq"]
          [] s.st \in {"sr", "sf"} /\ c = "," -> endFld
          [] s.st \in {"sr", "sf"} /\ c \notin { LF, "\"", "," } ->
                [s EXCEPT !.st = "if", !.fld = << c >>]
          [] s.st = "if" /\ c = LF -> endRow
          [] s.st = "if" /\ c = "," -> endFld
          [] s.st = "if" /\ c \notin { LF, "," } -> more
          [] s.st = "iq" /\ c = "\"" -> [s EXCEPT !.st = "qq"]
          [] s.st = "iq" /\ c # "\"" -> more
          [] s.st = "qq" /\ c = "\"" -> [more EXCEPT !.st = "iq"]
          [] s.st = "qq" /\ c = "," -> endFld
          [] s.st = "qq" /\ c = LF -> endRow
          [] s.st = "qq" /\ c \notin { "\"", ",", LF } -> [more EXCEPT !.st = "if"]

\* csv.reader over the characters t[lo..hi], entered in parser state s
RECURSIVE CsvScan(_, _, _, _)
CsvScan(t, lo, hi, s) ==
    IF lo > hi THEN s
    ELSE IF lo = hi THEN CsvStep(s, t[lo])
    ELSE LET mid == (lo + hi) \div 2
             half == CsvScan(t, lo, mid, s)
         IN  IF half.st \in CsvStates THEN CsvScan(t, mid + 1, hi, half) ELSE half

\* the rows csv.reader yields for a file read in text mode (the end of the
\* file closes a record that is under way)
CsvRows(t) ==
    LET u == UnivNewlines(t)
        s == CsvScan(u, 1, Len(u), CsvStart)
    IN  IF s.st = "sr" THEN s.rows ELSE Append(s.rows, Append(s.row, s.fld))

\* row.get(col, '') of a csv.DictReader row, rendered by the f-string:
\* '' when no column has the name, None when the row is shorter than the
\* header, otherwise the value of the last column with that name
DictGet(fieldnames, row, col) ==
    LET at == { j \in DOMAIN fieldnames : fieldnames[j] = col }
    IN  IF at = {} THEN << >>
        ELSE IF \E j \in at : j > Len(row) THEN NoneText
        ELSE row[SetMax(at)]

\* cred_key of every row csv.DictReader yields: the first row read is the
\* header, empty rows after it are skipped
CsvKeys(t) ==
    LET rows == CsvRows(t)
    IN  IF rows = << >> THEN {}
        ELSE { DictGet(rows[1], rows[j], EmailCol) \o << ":" >>
                 \o DictGet(rows[1], rows[j], PasswordCol) :
               j \in { k \in 2..Len(rows) : rows[k] # << >> } }

\* ------------------------------------------------------------------------
\* txt format
\* ------------------------------------------------------------------------

\* cred_key of every non-empty line of a txt destination
TxtKeys(t) ==
    LET lines == FileLines(t)
        stripped == { Strip(lines[j]) : j \in DOMAIN lines } \ { << >> }
    IN  { IF CredSearch(l).found THEN Group0(CredSearch(l)) ELSE l : l \in stripped }

\* ------------------------------------------------------------------------
\* json module
\* ------------------------------------------------------------------------
UrlKey == <<"u","r","l">>
EmailKey == <<"e","m","a","i","l">>
PasswordKey == <<"p","a","s","s","w","o","r","d">>
SourceKey == <<"s","o","u","r","c","e">>
RawKey == <<"r","a","w">>

\* the escapes json.dump writes inside a string
JsonEscape(s) ==
    ReplaceEach(s, [ j \in DOMAIN s |->
                       CASE s[j] = "\"" -> << "\\", "\"" >>
                         [] s[j] = "\\" -> << "\\", "\\" >>
                         [] s[j] = LF   -> << "\\", "n" >>
                         [] s[j] = CR   -> << "\\", "r" >>
                         [] s[j] = TAB  -> << "\\", "t" >>
                         [] OTHER       -> << s[j], NoChar >> ])

JsonString(s) == << "\"" >> \o JsonEscape(s) \o << "\"" >>

\* one "key": "value" member at indent 4
JsonMember(k, v, last) ==
    << " ", " ", " ", " " >> \o JsonString(k) \o << ":", " " >> \o JsonString(v)
        \o (IF last THEN << LF >> ELSE << ",", LF >>)

\* an entry of a json array that is an object (a dict, which has .get);
\* the other entries of the model are numbers
IsObject(e) == "email" \in DOMAIN e

\* one entry at indent 2, an object with its members in the insertion
\* order of the dict, or a number
JsonEntry(e) ==
    IF IsObject(e)
    THEN << " ", " ", "{", LF >>
            \o JsonMember(UrlKey, e.url, FALSE)
            \o JsonMember(EmailKey, e.email, FALSE)
            \o JsonMember(PasswordKey, e.password, FALSE)
            \o JsonMember(SourceKey, e.source, FALSE)
            \o JsonMember(RawKey, e.raw, TRUE)
            \o << " ", " ", "}" >>
    ELSE << " ", " ", e.number >>

RECURSIVE JsonEntries(_)
JsonEntries(es) ==
    IF Len(es) = 1 THEN JsonEntry(Head(es)) \o << LF >>
    ELSE JsonEntry(Head(es)) \o << ",", LF >> \o JsonEntries(Tail(es))

\* json.dump(all_entries, f, indent=2)
JsonDump(es) ==
    IF es = << >> THEN << "[", "]" >>
    ELSE << "[", LF >> \o JsonEntries(es) \o << "]" >>

HexDigits == { "0","1","2","3","4","5","6","7","8","9",
               "a","b","c","d","e","f","A","B","C","D","E","F" }

\* the scan of a json string body from position i of t (after the opening
\* quote): the position after the closing quote, 0 when the literal is
\* invalid (control character, bad escape, no closing quote)
RECURSIVE JsonStringEnd(_, _)
JsonStringEnd(t, i) ==
    IF i > Len(t) THEN 0
    ELSE CASE t[i] = "\"" -> i + 1
           [] t[i] \in { LF, CR, TAB } -> 0
           [] t[i] = "\\" ->
                IF i + 1 > Len(t) THEN 0
                ELSE IF t[i + 1] \in { "\"", "\\", "/", "b", "f", "n", "r", "t" }
                     THEN JsonStringEnd(t, i + 2)
                ELSE IF /\ t[i + 1] = "u"
                        /\ i + 5 <= Len(t)
                        /\ \A k \in (i + 2)..(i + 5) : t[k] \in HexDigits
                     THEN JsonStringEnd(t, i + 6)
                ELSE 0
           [] OTHER -> JsonStringEnd(t, i + 1)

\* json.load of a text destination.  The texts this program leaves behind
\* are its own txt lines and csv rows (each holds '@', ':' or ','), alone or
\* after a dumped array, so the only json value such a text can be in full is
\* one string literal; any other text raises JSONDecodeError (no value, or
\* extra data after the value).
JsonLoadText(t) ==
    LET body == Strip(t)
    IN  IF /\ body # << >>
           /\ body[1] = "\""
           /\ JsonStringEnd(body, 2) = Len(body) + 1
        THEN [kind |-> "str", doc |-> << >>]
        ELSE [kind |-> "error", doc |-> << >>]

\* ------------------------------------------------------------------------
\* The destination file
\* ------------------------------------------------------------------------
Absent == [kind |-> "absent", text |-> << >>, doc |-> << >>]
TextFile(t) == [kind |-> "text", text |-> t, doc |-> << >>]
JsonFile(es) == [kind |-> "json", text |-> << >>, doc |-> es]

\* os.path.exists(output_file)
Exists(file) == file.kind # "absent"

\* the characters the file holds
FileText(file) ==
    CASE file.kind = "text" -> file.text
      [] file.kind = "json" -> JsonDump(file.doc)
      [] OTHER -> << >>

\* json.load(f)
JsonLoad(file) ==
    IF file.kind = "json" THEN [kind |-> "list", doc |-> file.doc]
    ELSE JsonLoadText(file.text)

\* ------------------------------------------------------------------------
\* Program constants
\* ------------------------------------------------------------------------
MAX_RETRIES == 3
RETRY_DELAY == 2

BUCKETS == << "leaks.private", "leaks.public", "leaks.private.li", "pastes" >>

Formats == { "txt", "json", "csv" }

\* ------------------------------------------------------------------------
\* Dedup keys, resume load, extraction, output writer
\* ------------------------------------------------------------------------

\* cred_key = f"{email}:{password}"
CredKey(email, password) == email \o << ":" >> \o password

\* the resume block: the dedup keys read from the destination, and whether
\* the block ended in one of its except clauses.  json.load that cannot
\* decode the destination leaves the set empty; the loop over the entries
\* adds the key of every entry up to the first one that has no .get
\* (an entry that is no object, a character of a string value)
LoadResult(format, file) ==
    IF ~Exists(file) THEN [keys |-> {}, raised |-> FALSE]
    ELSE CASE format = "json" ->
                LET v == JsonLoad(file)
                    bad == { j \in DOMAIN v.doc : ~IsObject(v.doc[j]) }
                    n == IF bad = {} THEN Len(v.doc) ELSE SetMin(bad) - 1
                IN  IF v.kind = "list"
                    THEN [keys |-> { CredKey(v.doc[j].email, v.doc[j].password) :
                                       j \in 1..n },
                          raised |-> bad # {}]
                    ELSE [keys |-> {},
                          raised |-> v.kind = "error" \/ Len(Strip(FileText(file))) > 2]
           [] format = "csv" -> [keys |-> CsvKeys(FileText(file)), raised |-> FALSE]
           [] OTHER -> [keys |-> TxtKeys(FileText(file)), raised |-> FALSE]

\* seen when the resume block is left
LoadSeen(format, file) == LoadResult(format, file).keys

\* the open calls of the resume block: one when the destination exists
LoadOpens(format, file) == IF Exists(file) THEN 1 ELSE 0

\* "if cred_key in seen": the credential-level dedup test
IsDuplicateNever(key, seenKeys) == FALSE

IsDuplicate(key, seenKeys) == key \in seenKeys

\* the body of the loop over the lines of one document: emit is TRUE when
\* the line yields a new record
ProcessLine(line, tgt, name, seenKeys) ==
    LET ls == Strip(line)
        m == CredSearch(ls)
        key == CredKey(m.email, m.password)
        skip == [emit |-> FALSE, key |-> << >>,
                 rec |-> [url |-> << >>, email |-> << >>, password |-> << >>,
                          source |-> << >>, raw |-> << >>]]
    IN  IF ~ContainsTarget(line, tgt) THEN skip
        ELSE IF ~m.found THEN skip
        ELSE IF IsDuplicate(key, seenKeys) THEN skip
        ELSE [emit |-> TRUE, key |-> key,
              rec |-> [url      |-> Strip(RStripColon(SubSeq(ls, 1, m.start - 1))),
                       email    |-> m.email,
                       password |-> m.password,
                       source   |-> name,
                       raw      |-> ls]]

\* the rows and lines the writer appends
CsvRecordRow(c) == CsvRow(<< c.url, c.email, c.password, c.source >>)
TxtRecordLine(c) == c.raw \o << LF >>

\* all_entries = existing_entries + new_creds
MergeEntriesDropExisting(existing_entries, creds) == creds

MergeEntries(existing_entries, creds) == existing_entries \o creds

\* open(output_file, 'a') and the writes that follow: the text is added at
\* the end of what the file holds
AppendToTruncating(text, added) == added

AppendTo(text, added) == text \o added

\* file_exists = os.path.exists(output_file) and os.path.getsize(output_file) > 0
file_exists_never(file) == FALSE

file_exists(file) == Exists(file) /\ Len(FileText(file)) > 0

\* the write block for a non-empty new_creds: the destination afterwards
\* and the open calls made; ok FALSE when the block raises before it opens
\* the destination for writing
WriteOutput(format, file, creds) ==
    CASE format = "json" ->
            LET v == IF Exists(file) THEN JsonLoad(file) ELSE [kind |-> "error", doc |-> << >>]
                existing_entries == IF v.kind = "list" THEN v.doc ELSE << >>
                reads == IF Exists(file) THEN 1 ELSE 0
            IN  IF v.kind = "str"
                THEN [ok |-> FALSE, file |-> file, opens |-> reads]
                ELSE [ok |-> TRUE, file |-> JsonFile(MergeEntries(existing_entries, creds)),
                      opens |-> reads + 1]
      [] format = "csv" ->
            LET header == IF file_exists(file) THEN << >> ELSE CsvRow(CsvHeader)
            IN  [ok |-> TRUE,
                 file |-> TextFile(AppendTo(FileText(file), header
                             \o Concat([ j \in DOMAIN creds |-> CsvRecordRow(creds[j]) ]))),
                 opens |-> 1]
      [] OTHER ->
            [ok |-> TRUE,
             file |-> TextFile(AppendTo(FileText(file),
                         Concat([ j \in DOMAIN creds |-> TxtRecordLine(creds[j]) ]))),
             opens |-> 1]

\* ------------------------------------------------------------------------
\* Bounds and the upstream the runs are checked against
\* ------------------------------------------------------------------------
MaxRuns == 2

\* args.target
Target == << "b", ".", "c", "c" >>

\* storage identifiers; NoSid is a record without one
NoSid == ""
Sids == { "s1", "s2" }

DocA  == [storageid |-> "s1", name |-> << "A" >>]
DocA2 == [storageid |-> "s1", name |-> << "A", "2" >>]
DocB  == [storageid |-> "s2", name |-> << "B" >>]
DocN  == [storageid |-> NoSid, name |-> << "N" >>]

\* what one ix.search call can do: raise, or return a list of records
Raises == [raises |-> TRUE, records |-> << >>]
Returns(rs) == [raises |-> FALSE, records |-> rs]
SearchOutcomes ==
    { Raises, Returns(<< >>), Returns(<< DocA, DocN >>), Returns(<< DocB, DocA2 >>) }

\* the text FILE_VIEW returns for a storage identifier
DocContent(sid) ==
    IF sid = "s1"
    THEN << "a","@","b",".","c","c",":","p", LF,
            "n","o"," ","b",".","c","c", LF,
            "z","@","d",".","e","e",":","q", LF >>
    ELSE << "u","/","x",":","a","@","b",".","c","c",":","p", CR, LF,
            "c","@","B",".","C","C",":","p",",","q", LF,
            " ","c","@","B",".","C","C",":","p",",","q", LF,
            "a","@","b",".","c","c",":","p", CR, "q" >>

\* what one FILE_VIEW call can do: raise, return the text, or return a
\* value that is not text
FetchOutcomes == { "raise", "text", "nontext" }

\* the destinations a first run can find
InitialFiles == { Absent, TextFile(<< >>) }

\* an entry of a json destination as an earlier run dumped it, and an entry
\* that is no object
GoodEntry ==
    [url |-> << >>, email |-> << "a","@","b",".","c","c" >>, password |-> << "p" >>,
     source |-> << "A" >>, raw |-> << "a","@","b",".","c","c",":","p" >>]
MalformedEntry == [number |-> "5"]

\* the destinations a resuming run can find: none, an empty file, a json
\* array whose second entry is malformed, a text that is no json
ResumeFiles ==
    InitialFiles \cup { JsonFile(<< GoodEntry, MalformedEntry >>),
                        TextFile(<< "{", "a", "@", "b", ".", "c", "c", ":", "p", LF >>) }

\* ------------------------------------------------------------------------
\* State
\* ------------------------------------------------------------------------
VARIABLES
    run,          \* number of the invocation
    format,       \* args.format
    email,        \* args.email
    pc,           \* search, load, fetch, extract, write, done, killed
    q,            \* number of the (term, bucket) query to issue next
    seen_ids,     \* storage identifiers queued so far
    all_results,  \* records queued so far
    results,      \* the document list
    lastOut,      \* what the last ix.search call did
    fetched,      \* storage identifiers handed to file_view_with_retry
    seen,         \* the dedup store
    loaded,       \* the dedup store as the resume block left it
    new_creds,    \* the records of this run
    i,            \* position in results of the document in hand
    status,       \* per document: pending, fetching, extracting, extracted, failed
    attempt,      \* attempt of file_view_with_retry
    delay,        \* delay of file_view_with_retry
    slept,        \* retry delay slept in this call of file_view_with_retry
    lastFetch,    \* how the call of file_view_with_retry that just ended went
    lines,        \* lines of the document still to process
    line,         \* the line the loop over the lines took last
    file,         \* the destination
    wrote,        \* number of times this run wrote the destination
    exitCode,     \* -1 while running, else the exit status
    prev,         \* the previous run: its arguments, documents and outcome
    failure,      \* what made the run exit with status 1: none, apikey, client, write, merge
    answered,     \* some ix.search call of this run returned
    pauses,       \* number of time.sleep(REQUEST_DELAY) calls of this run
    opens         \* number of times this run opened the destination

vars == << run, format, email, pc, q, seen_ids, all_results, results,
           lastOut, fetched, seen,
           loaded, new_creds, i, status, attempt, delay, slept, lastFetch,
           lines, line, file, wrote, exitCode, prev, failure, answered, pauses,
           opens >>

searchVars == << q, seen_ids, all_results, results, lastOut, answered >>

\* search_terms x BUCKETS
NumQueries == (IF email THEN 2 ELSE 1) * Len(BUCKETS)

NoFetch == [doc |-> 0, calls |-> 0, slept |-> 0, how |-> "none"]
NoPrev == [run |-> 0, format |-> "", results |-> << >>, status |-> << >>,
           seen |-> {}, keys |-> {}, wrote |-> 0, pc |-> ""]

StartRun(f) ==
    /\ format = f
    /\ pc = "start"
    /\ failure = "none"
    /\ answered = FALSE
    /\ pauses = 0
    /\ opens = 0
    /\ q = 1
    /\ seen_ids = {}
    /\ all_results = << >>
    /\ results = << >>
    /\ lastOut = Returns(<< >>)
    /\ fetched = << >>
    /\ seen = {}
    /\ loaded = {}
    /\ new_creds = << >>
    /\ i = 0
    /\ status = << >>
    /\ attempt = 0
    /\ delay = 0
    /\ slept = 0
    /\ lastFetch = NoFetch
    /\ lines = << >>
    /\ line = << >>
    /\ wrote = 0
    /\ exitCode = -1

Init ==
    /\ run = 1
    /\ email \in BOOLEAN
    /\ file \in InitialFiles
    /\ prev = NoPrev
    /\ \E f \in Formats : StartRun(f)

\* ------------------------------------------------------------------------
\* API key, client
\* ------------------------------------------------------------------------

\* what the start of a run can meet: no API key in the arguments nor in the
\* environment, intelx(args.apikey) raising, or a client
StartOutcomes == { "nokey", "clientraises", "ready" }

\* the API key block and the construction of the client
Startup ==
    /\ pc = "start"
    /\ \E out \in StartOutcomes :
          CASE out = "nokey" ->
                  /\ pc' = "done"
                  /\ exitCode' = 1
                  /\ failure' = "apikey"
            [] out = "clientraises" ->
                  /\ pc' = "done"
                  /\ exitCode' = 1
                  /\ failure' = "client"
            [] out = "ready" ->
                  /\ pc' = "search"
                  /\ UNCHANGED << exitCode, failure >>
    /\ UNCHANGED << run, format, email, line, searchVars, fetched, seen, loaded,
                    new_creds, i, status, attempt, delay, slept, lastFetch,
                    lines, file, wrote, prev, pauses, opens >>

\* ------------------------------------------------------------------------
\* Search and document-level dedup
\* ------------------------------------------------------------------------

\* "if sid and sid not in seen_ids"
IsNewDocAnySid(sid, ids) == sid # NoSid

IsNewDoc(sid, ids) == sid # NoSid /\ sid \notin ids

\* the loop over the records of one query
RECURSIVE Aggregate(_, _, _)
Aggregate(records, ids, acc) ==
    IF records = << >> THEN [ids |-> ids, all |-> acc]
    ELSE LET r == Head(records)
             sid == r.storageid
         IN  IF IsNewDoc(sid, ids)
             THEN Aggregate(Tail(records), ids \cup { sid }, Append(acc, r))
             ELSE Aggregate(Tail(records), ids, acc)

\* the query taken after query n raised: the except clause continues with
\* the next bucket
AfterQueryFailureAbort(n, last) == last + 1

AfterQueryFailure(n, last) == n + 1

\* one ix.search call of the term/bucket loop, with its except clause
SearchQuery ==
    /\ pc = "search"
    /\ q <= NumQueries
    /\ \E out \in SearchOutcomes :
          LET agg == IF out.raises THEN [ids |-> seen_ids, all |-> all_results]
                     ELSE Aggregate(out.records, seen_ids, all_results)
          IN  /\ seen_ids' = agg.ids
              /\ all_results' = agg.all
              /\ lastOut' = out
              /\ answered' = (answered \/ ~out.raises)
              /\ q' = IF out.raises THEN AfterQueryFailure(q, NumQueries) ELSE q + 1
              /\ IF q' > NumQueries
                 THEN /\ results' = agg.all
                      /\ pc' = "load"
                 ELSE /\ results' = results
                      /\ pc' = pc
    /\ UNCHANGED << run, format, email, line, fetched, seen, loaded, new_creds, i,
                    status, attempt, delay, slept, lastFetch, lines, file,
                    wrote, exitCode, prev, failure, pauses, opens >>

\* ------------------------------------------------------------------------
\* Resume load
\* ------------------------------------------------------------------------

\* entering the iteration of the loop for document k (past the last
\* document: the write block)
EnterDoc(k) ==
    IF k <= Len(results)
    THEN /\ pc' = "fetch"
         /\ i' = k
         /\ fetched' = Append(fetched, results[k].storageid)
         /\ attempt' = 1
         /\ delay' = RETRY_DELAY
         /\ slept' = 0
    ELSE /\ pc' = "write"
         /\ i' = Len(results) + 1
         /\ fetched' = fetched
         /\ attempt' = 0
         /\ delay' = 0
         /\ slept' = 0

LoadExisting ==
    /\ pc = "load"
    /\ seen' = LoadSeen(format, file)
    /\ loaded' = seen'
    /\ status' = [ k \in DOMAIN results |-> IF k = 1 THEN "fetching" ELSE "pending" ]
    /\ EnterDoc(1)
    /\ lastOut' = Returns(<< >>)
    /\ opens' = opens + LoadOpens(format, file)
    /\ UNCHANGED << run, format, email, line, q, seen_ids, all_results, results,
                    new_creds, lastFetch, lines, file, wrote, exitCode, prev,
                    failure, answered, pauses >>

\* ------------------------------------------------------------------------
\* Fetch with retry, extraction
\* ------------------------------------------------------------------------

\* "continue" in the except clause of the loop body: the document the
\* loop takes after document k failed
AfterFailureBreak(k) == Len(results) + 1

AfterFailure(k) == k + 1

\* "if i < len(results) - 1: time.sleep(REQUEST_DELAY)" at the end of the
\* loop body, which the "continue" of the except clause does not reach
\* (k counts the documents from 1)
RateLimited(st, k) == st # "failed" /\ k < Len(results)

\* the except clause of the loop body (log, continue) or the normal end of
\* the iteration: document i ends in state st and the loop moves on
EndDoc(st) ==
    LET n == IF st = "failed" THEN AfterFailure(i) ELSE i + 1
    IN  /\ status' = [ k \in DOMAIN status |->
                         IF k = i THEN st
                         ELSE IF k = n THEN "fetching"
                         ELSE status[k] ]
        /\ pauses' = IF RateLimited(st, i) THEN pauses + 1 ELSE pauses
        /\ EnterDoc(n)

\* "delay *= 2"
NextDelayConstant(d) == d

NextDelay(d) == d * 2

\* one ix.FILE_VIEW call of file_view_with_retry for document i
FetchAttempt ==
    /\ pc = "fetch"
    /\ \E out \in FetchOutcomes :
          CASE out = "raise" /\ attempt < MAX_RETRIES ->
                  \* time.sleep(delay); delay *= 2
                  /\ slept' = slept + delay
                  /\ delay' = NextDelay(delay)
                  /\ attempt' = attempt + 1
                  /\ UNCHANGED << pc, i, fetched, status, lastFetch, lines, pauses >>
            [] out = "raise" /\ attempt = MAX_RETRIES ->
                  \* raise: the exception reaches the except clause of the loop
                  /\ lastFetch' = [doc |-> i, calls |-> attempt, slept |-> slept,
                                   how |-> "raised"]
                  /\ EndDoc("failed")
                  /\ UNCHANGED lines
            [] out = "text" ->
                  /\ lastFetch' = [doc |-> i, calls |-> attempt, slept |-> slept,
                                   how |-> "returned"]
                  /\ lines' = SplitOn(DocContent(results[i].storageid), LF)
                  /\ status' = [status EXCEPT ![i] = "extracting"]
                  /\ pc' = "extract"
                  /\ UNCHANGED << i, fetched, attempt, delay, slept, pauses >>
            [] out = "nontext" ->
                  \* contents.split raises
                  /\ lastFetch' = [doc |-> i, calls |-> attempt, slept |-> slept,
                                   how |-> "returned"]
                  /\ EndDoc("failed")
                  /\ UNCHANGED lines
    /\ UNCHANGED << run, format, email, line, searchVars, seen, loaded, new_creds,
                    file, wrote, exitCode, prev, failure, opens >>

\* one iteration of the loop over the lines of document i
ExtractLine ==
    /\ pc = "extract"
    /\ lines # << >>
    /\ LET r == ProcessLine(Head(lines), Target, results[i].name, seen)
       IN  /\ seen' = IF r.emit THEN seen \cup { r.key } ELSE seen
           /\ new_creds' = IF r.emit THEN Append(new_creds, r.rec) ELSE new_creds
    /\ line' = Head(lines)
    /\ lines' = Tail(lines)
    /\ IF Tail(lines) = << >>
       THEN EndDoc("extracted")
       ELSE UNCHANGED << pc, i, fetched, status, attempt, delay, slept, pauses >>
    /\ lastFetch' = NoFetch
    /\ UNCHANGED << run, format, email, searchVars, loaded, file, wrote, exitCode,
                    prev, failure, opens >>

\* ------------------------------------------------------------------------
\* Write output, end of the run
\* ------------------------------------------------------------------------
\* the write block follows the loop over the documents
AtWriteBlockInLoop == pc \in { "write", "fetch" }

AtWriteBlock == pc = "write"

\* "if not new_creds"
NoNewCredsNever(creds) == FALSE

NoNewCreds(creds) == creds = << >>

\* the write block; opened tells whether open(output_file, 'w') or
\* open(output_file, 'a') succeeds
WriteStep ==
    /\ AtWriteBlock
    /\ \E opened \in BOOLEAN :
          IF NoNewCreds(new_creds)
          THEN /\ exitCode' = 0
               /\ UNCHANGED << file, wrote, failure, opens >>
          ELSE LET w == WriteOutput(format, file, new_creds)
               IN  CASE ~w.ok ->
                         \* existing_entries + new_creds raises
                         /\ opens' = opens + w.opens
                         /\ exitCode' = 1
                         /\ failure' = "merge"
                         /\ UNCHANGED << file, wrote >>
                    [] w.ok /\ ~opened ->
                         \* the open for writing raises: the except clauses
                         \* at the end of the program
                         /\ opens' = opens + w.opens - 1
                         /\ exitCode' = 1
                         /\ failure' = "write"
                         /\ UNCHANGED << file, wrote >>
                    [] w.ok /\ opened ->
                         /\ opens' = opens + w.opens
                         /\ file' = w.file
                         /\ wrote' = wrote + 1
                         /\ exitCode' = 0
                         /\ UNCHANGED failure
    /\ pc' = "done"
    /\ lastFetch' = NoFetch
    /\ UNCHANGED << run, format, email, line, searchVars, fetched, seen, loaded,
                    new_creds, i, status, attempt, delay, slept, lines, prev,
                    pauses >>

\* the process is terminated before it ends: its memory is gone, the
\* destination stays
Interrupt ==
    /\ pc \in { "start", "search", "load", "fetch", "extract", "write" }
    /\ pc' = "killed"
    /\ q' = 0
    /\ seen_ids' = {}
    /\ all_results' = << >>
    /\ results' = << >>
    /\ lastOut' = Returns(<< >>)
    /\ fetched' = << >>
    /\ seen' = {}
    /\ loaded' = {}
    /\ new_creds' = << >>
    /\ i' = 0
    /\ status' = << >>
    /\ attempt' = 0
    /\ delay' = 0
    /\ slept' = 0
    /\ lastFetch' = NoFetch
    /\ lines' = << >>
    /\ line' = << >>
    /\ answered' = FALSE
    /\ pauses' = 0
    /\ opens' = 0
    /\ UNCHANGED << run, format, email, file, wrote, exitCode, prev, failure >>

\* the next invocation, on the same destination
NextRun ==
    /\ pc \in { "done", "killed" }
    /\ run < MaxRuns
    /\ run' = run + 1
    /\ prev' = [run |-> run, format |-> format, results |-> results,
                status |-> status, seen |-> seen,
                keys |-> IF wrote > 0
                         THEN { CredKey(new_creds[j].email, new_creds[j].password) :
                                  j \in DOMAIN new_creds }
                         ELSE {},
                wrote |-> wrote, pc |-> pc]
    /\ \E f \in Formats : format' = f
    /\ pc' = "start"
    /\ failure' = "none"
    /\ answered' = FALSE
    /\ pauses' = 0
    /\ opens' = 0
    /\ q' = 1
    /\ seen_ids' = {}
    /\ all_results' = << >>
    /\ results' = << >>
    /\ lastOut' = Returns(<< >>)
    /\ fetched' = << >>
    /\ seen' = {}
    /\ loaded' = {}
    /\ new_creds' = << >>
    /\ i' = 0
    /\ status' = << >>
    /\ attempt' = 0
    /\ delay' = 0
    /\ slept' = 0
    /\ lastFetch' = NoFetch
    /\ lines' = << >>
    /\ line' = << >>
    /\ wrote' = 0
    /\ exitCode' = -1
    /\ UNCHANGED << email, file >>

Next ==
    \/ Startup
    \/ SearchQuery
    \/ LoadExisting
    \/ FetchAttempt
    \/ ExtractLine
    \/ WriteStep
    \/ Interrupt
    \/ NextRun

Spec == Init /\ [][Next]_vars

\* one invocation that nothing terminates from outside: the program is
\* sequential and every step it can take is taken
NextLive ==
    \/ Startup
    \/ SearchQuery
    \/ LoadExisting
    \/ FetchAttempt
    \/ ExtractLine
    \/ WriteStep

\* one uninterrupted invocation on a destination left by earlier work
ResumeInit ==
    /\ run = 1
    /\ email \in BOOLEAN
    /\ file \in ResumeFiles
    /\ prev = NoPrev
    /\ \E f \in Formats : StartRun(f)

ResumeSpec == ResumeInit /\ [][NextLive]_vars

\* every step of ExtractLine takes the first of the remaining lines
NextLine == pc = "extract" /\ lines' = Tail(lines)

LiveSpec ==
    /\ Init
    /\ [][NextLive]_vars
    /\ WF_vars(Startup)
    /\ WF_vars(SearchQuery)
    /\ WF_vars(LoadExisting)
    /\ WF_vars(FetchAttempt)
    /\ WF_lines(NextLine)
    /\ WF_vars(WriteStep)

\* ------------------------------------------------------------------------
\* The loop body on one line
\* ------------------------------------------------------------------------

KeyOf(c) == CredKey(c.email, c.password)

\* longest text before the credential in the lines tried
MaxUrlLen == 3

\* the lines tried: a text before the credential, over a letter, the colon,
\* the blank and the slash; a local part with no, one or two '@'; a domain
\* that is the target, the target in another case, a domain the target
\* matches only as a pattern, another domain, a domain with a short suffix;
\* a colon and a password, or less
UrlChars == { "u", ":", " ", "/" }
UrlTexts == UNION { [ 1..n -> UrlChars ] : n \in 0..MaxUrlLen }
LocalParts == { << >>, << "a", "@" >>, << "a", "@", "a", "@" >> }
DomainParts ==
    { << "b", ".", "c", "c" >>, << "B", ".", "C", "c" >>,
      << "b", "x", "c", "c", ".", "d", "d" >>, << "d", ".", "e", "e" >>,
      << "b", ".", "c" >> }
PasswordParts ==
    { << >>, << ":" >>, << ":", "p" >>, << ":", "p", " " >>,
      << ":", "p", " ", "q" >>, << ":", "p", ":", "q" >> }
ExtractLines ==
    { [ n \in 1..Len(u) |-> u[n] ] \o l \o d \o p :
        u \in UrlTexts, l \in LocalParts, d \in DomainParts, p \in PasswordParts }

\* the first document has been fetched and holds one line; the dedup store
\* is empty or holds a@b.cc:p
ExtractInit ==
    /\ run = 1
    /\ format = "txt"
    /\ email = FALSE
    /\ pc = "extract"
    /\ q = Len(BUCKETS) + 1
    /\ seen_ids = { DocA.storageid }
    /\ all_results = << DocA >>
    /\ results = << DocA >>
    /\ lastOut = Returns(<< >>)
    /\ fetched = << DocA.storageid >>
    /\ seen \in { {}, { KeyOf(GoodEntry) } }
    /\ loaded = seen
    /\ new_creds = << >>
    /\ i = 1
    /\ status = << "extracting" >>
    /\ attempt = 1
    /\ delay = RETRY_DELAY
    /\ slept = 0
    /\ lastFetch = [doc |-> 1, calls |-> 1, slept |-> 0, how |-> "returned"]
    /\ lines \in { << l >> : l \in ExtractLines }
    /\ line = << >>
    /\ file = Absent
    /\ wrote = 0
    /\ exitCode = -1
    /\ prev = NoPrev
    /\ failure = "none"
    /\ answered = TRUE
    /\ pauses = 0
    /\ opens = 0

ExtractSpec == ExtractInit /\ [][ExtractLine]_vars

\* ------------------------------------------------------------------------
\* Properties
\* ------------------------------------------------------------------------
RECURSIVE Ascending(_)
Ascending(S) ==
    IF S = {} THEN << >> ELSE << SetMin(S) >> \o Ascending(S \ { SetMin(S) })

IsPrefix(a, b) == Len(a) <= Len(b) /\ SubSeq(b, 1, Len(a)) = a

Terminal == { "failed", "extracted" }

AllTerminal == \A k \in DOMAIN status : status[k] \in Terminal

\* the lines of document k the extraction loop has gone through
LinesDone(k) ==
    LET all == SplitOn(DocContent(results[k].storageid), LF)
    IN  CASE status[k] = "extracted" -> all
          [] status[k] = "extracting" -> SubSeq(all, 1, Len(all) - Len(lines))
          [] OTHER -> << >>

\* every occurrence of a credential met so far, in document order then line
\* order: the lines that hold the target and match the pattern
Occurrences ==
    LET ofDoc(k) ==
            LET done == LinesDone(k)
                hits == { j \in DOMAIN done :
                            /\ ContainsTarget(done[j], Target)
                            /\ CredSearch(Strip(done[j])).found }
                at == Ascending(hits)
            IN  [ n \in DOMAIN at |->
                    [key    |-> Group0(CredSearch(Strip(done[at[n]]))),
                     raw    |-> Strip(done[at[n]]),
                     source |-> results[k].name] ]
    IN  Concat([ k \in DOMAIN status |-> ofDoc(k) ])

\* the occurrences that are the first of their key and whose key the
\* destination did not hold
FirstOccurrences ==
    LET occ == Occurrences
        first == { j \in DOMAIN occ :
                     /\ occ[j].key \notin loaded
                     /\ \A k \in 1..(j - 1) : occ[k].key # occ[j].key }
        at == Ascending(first)
    IN  [ n \in DOMAIN at |-> occ[at[n]] ]

\* C2: at every point of a run the records accumulated for output have
\* pairwise distinct dedup keys, none of them is a key loaded from the
\* existing destination, and the records are exactly the first occurrences,
\* in document order then line order, of the credentials met so far.
C2_CredentialDedup ==
    /\ \A a, b \in DOMAIN new_creds :
          a # b => KeyOf(new_creds[a]) # KeyOf(new_creds[b])
    /\ \A a \in DOMAIN new_creds : KeyOf(new_creds[a]) \notin loaded
    /\ [ n \in DOMAIN new_creds |->
           [key |-> KeyOf(new_creds[n]), raw |-> new_creds[n].raw,
            source |-> new_creds[n].source] ] = FirstOccurrences

\* a run that met the same credential in two documents, and twice in one,
\* and kept one record for it
C2_Witness ==
    /\ pc = "done"
    /\ status = << "extracted", "extracted" >>
    /\ Len(Occurrences) > Len(new_creds)
    /\ new_creds # << >>

NoDupSids(rs) ==
    \A a, b \in DOMAIN rs : a # b => rs[a].storageid # rs[b].storageid

\* the records of one query result that are new to the document list: they
\* have a storage identifier, it is not queued yet, and no earlier record of
\* the same result has it
FirstSeen(records, ids) ==
    LET new == { j \in DOMAIN records :
                   /\ records[j].storageid # NoSid
                   /\ records[j].storageid \notin ids
                   /\ \A k \in 1..(j - 1) : records[k].storageid # records[j].storageid }
        at == Ascending(new)
    IN  [ n \in DOMAIN at |-> records[at[n]] ]

\* C4: the document list never holds two entries with the same storage
\* identifier nor an entry without one, each query adds its new documents
\* at the end in the order it returned them, and each document of the list
\* is handed to the fetch step exactly once in the run.
C4_DocumentDedup ==
    /\ [](/\ NoDupSids(all_results)
          /\ \A k \in DOMAIN all_results : all_results[k].storageid # NoSid
          /\ pc \in { "load", "fetch", "extract", "write", "done" } => results = all_results
          /\ IsPrefix(fetched, [ k \in DOMAIN results |-> results[k].storageid ])
          /\ pc \in { "write", "done" } =>
                \A k \in DOMAIN results :
                    Cardinality({ j \in DOMAIN fetched :
                                    fetched[j] = results[k].storageid }) = 1)
    /\ [][pc = "search" /\ q' = q + 1 =>
            all_results' = all_results \o
                (IF lastOut'.raises THEN << >>
                 ELSE FirstSeen(lastOut'.records, seen_ids))]_vars

\* a run in which a document came back from two queries and a record had no
\* storage identifier, with both documents fetched once
C4_Witness ==
    /\ pc = "done"
    /\ results = << DocA, DocB >>
    /\ fetched = << "s1", "s2" >>

RECURSIVE Pow2(_)
Pow2(n) == IF n <= 0 THEN 1 ELSE 2 * Pow2(n - 1)

\* RETRY_DELAY + 2*RETRY_DELAY + ... for the first n retries
RECURSIVE BackoffSum(_)
BackoffSum(n) == IF n <= 0 THEN 0 ELSE BackoffSum(n - 1) + RETRY_DELAY * Pow2(n - 1)

\* C6: one call of file_view_with_retry makes at most MAX_RETRIES calls of
\* FILE_VIEW, waits RETRY_DELAY * 2^(j-1) before retry j and makes no call
\* after a successful one; when every attempt fails the failure reaches the
\* driver, the document is skipped, and the delay slept in total is the sum
\* of the backoff sequence, nothing being slept after the last attempt.
C6_RetryBackoff ==
    /\ [](/\ pc = "fetch" =>
                /\ attempt \in 1..MAX_RETRIES
                /\ delay = RETRY_DELAY * Pow2(attempt - 1)
                /\ slept = BackoffSum(attempt - 1)
          /\ lastFetch.how = "raised" =>
                /\ lastFetch.calls = MAX_RETRIES
                /\ lastFetch.slept = BackoffSum(MAX_RETRIES - 1)
                /\ status[lastFetch.doc] = "failed"
          /\ lastFetch.how = "returned" =>
                /\ lastFetch.calls \in 1..MAX_RETRIES
                /\ lastFetch.slept = BackoffSum(lastFetch.calls - 1))
    /\ [][/\ (pc = "fetch" /\ pc' = "fetch" /\ i' = i) =>
                /\ attempt' = attempt + 1
                /\ slept' = slept + RETRY_DELAY * Pow2(attempt - 1)
          /\ (pc = "fetch" /\ pc' = "extract") =>
                /\ lastFetch'.calls = attempt
                /\ lines' = SplitOn(DocContent(results[i].storageid), LF)]_vars

\* a fetch that failed on every attempt
C6_Witness ==
    /\ lastFetch.how = "raised"
    /\ lastFetch.slept = 6
    /\ pc \in { "fetch", "write" }

\* C5: once the document list is built every document reaches a terminal
\* state (failed or extracted) and the write block is entered; documents end
\* in list order; a failed document does not stop the loop, and the records
\* gathered so far stay in new_creds, in order, up to the write block.
C5_FailureIsolation ==
    /\ (pc = "load") ~> (pc = "write" /\ AllTerminal)
    /\ [](/\ pc \in { "write", "done" } => AllTerminal
          /\ \A k \in DOMAIN status :
                status[k] # "pending" =>
                    \A j \in 1..(k - 1) : status[j] \in Terminal)
    /\ [][run' = run /\ pc' # "killed" => IsPrefix(new_creds, new_creds')]_vars

\* a run whose first document failed and whose second document was
\* extracted and written
C5_Witness ==
    /\ pc = "done"
    /\ status = << "failed", "extracted" >>
    /\ new_creds # << >>
    /\ wrote = 1

\* the entries a json destination holds
JsonEntriesOf(f) == IF f.kind = "json" THEN f.doc ELSE << >>

\* C8: whenever a run in json format rewrites the destination, the new
\* document is the entries the destination held, in their order, followed
\* by the records of the run.
C8_JsonRewriteLossless ==
    [][(format = "json" /\ file' # file) =>
          /\ file'.kind = "json"
          /\ file'.doc = JsonEntriesOf(file) \o new_creds]_vars

\* a second json run that added records to the entries of the first
C8_Witness ==
    /\ run = 2
    /\ format = "json"
    /\ prev.format = "json"
    /\ prev.wrote = 1
    /\ wrote = 1
    /\ file.kind = "json"
    /\ Len(file.doc) > Len(new_creds)

\* what a run in csv or txt format adds for its records, in run order
AddedRows(fmt, creds) ==
    IF fmt = "csv"
    THEN Concat([ j \in DOMAIN creds |->
                    CsvRow(<< creds[j].url, creds[j].email, creds[j].password,
                              creds[j].source >>) ])
    ELSE Concat([ j \in DOMAIN creds |-> creds[j].raw \o << LF >> ])

\* C9: whenever a run in csv or txt format changes the destination, what
\* the destination held is an unmodified prefix of what it holds afterwards,
\* and what follows is the records of the run in run order (for csv, after
\* a header row when one is written).
C9_AppendOnly ==
    [][(format \in { "csv", "txt" } /\ file' # file) =>
          LET old == FileText(file)
              new == FileText(file')
              added == SubSeq(new, Len(old) + 1, Len(new))
          IN  /\ file'.kind = "text"
              /\ IsPrefix(old, new)
              /\ \/ added = AddedRows(format, new_creds)
                 \/ /\ format = "csv"
                    /\ added = CsvRow(CsvHeader) \o AddedRows(format, new_creds)]_vars

\* a second run that appended to what the first run wrote
C9_Witness ==
    /\ run = 2
    /\ format \in { "csv", "txt" }
    /\ prev.wrote = 1
    /\ wrote = 1
    /\ pc = "done"

\* C10: the destination changes only in the write block, entered after
\* every document reached a terminal state, and at most once per run; a run
\* terminated before that leaves the destination as it found it.
C10_SingleWriteAtEnd ==
    /\ [](/\ wrote <= 1
          /\ pc # "done" => wrote = 0)
    /\ [][file' # file =>
            /\ pc = "write"
            /\ AllTerminal
            /\ wrote = 0
            /\ wrote' = 1
            /\ pc' = "done"]_vars

\* a run that wrote once, after its two documents were processed
C10_Witness ==
    /\ pc = "done"
    /\ wrote = 1
    /\ Len(status) = 2
    /\ AllTerminal

\* C1: a run that follows a completed run with the same format, the same
\* document list and the same fetch outcomes finds no new record and leaves
\* the destination as the first run left it.
C1_Idempotence ==
    (/\ pc = "done"
     /\ run >= 2
     /\ prev.pc = "done"
     /\ prev.format = format
     /\ prev.results = results
     /\ prev.status = status)
    => (new_creds = << >> /\ wrote = 0)

\* C3: a run that persists records to a destination the previous run wrote
\* in another format persists no credential the previous run persisted.
C3_ExactlyOnceAcrossFormats ==
    (/\ pc = "done"
     /\ run >= 2
     /\ prev.wrote = 1
     /\ prev.format # format
     /\ wrote = 1)
    => \A j \in DOMAIN new_creds : KeyOf(new_creds[j]) \notin prev.keys

\* C7: the dedup keys a run loads from a destination the previous run wrote
\* in the same format are the dedup store the previous run ended with.
C7_RoundTrip ==
    (/\ run >= 2
     /\ pc \in { "fetch", "extract", "write", "done" }
     /\ prev.wrote = 1
     /\ prev.format = format)
    => loaded = prev.seen

\* the upstream search could not be reached or queried: the client could
\* not be built, or no query of the run was answered
SearchUnreachable == failure = "client" \/ (failure # "apikey" /\ ~answered)

\* C11: a run ends with a non-zero status when the API key is missing,
\* when the upstream search could not be reached or queried, or when the
\* destination could not be written, and with status zero in every other
\* case.
C11_ExitStatus ==
    pc = "done" =>
        (exitCode # 0 <=> (failure \in { "apikey", "write" } \/ SearchUnreachable))

\* C12: when the resume block fails at any point of the load (corrupt
\* file, malformed entry part-way through) the dedup store holds no key when
\* the documents are processed, as it does when the destination is absent.
C12_LoadFailureEmptyStore ==
    (/\ pc \in { "fetch", "extract", "write" }
     /\ (LoadResult(format, file).raised \/ ~Exists(file)))
    => loaded = {}

\* C13: every (term, bucket) pair is queried, one after the other, whether
\* or not earlier queries failed: a step of the search loop moves to the
\* next pair and the loop is left only after the last pair; a query that
\* fails adds no document; every document of a query that succeeds is in
\* the result set, after the documents that were there before.
C13_QueryFailureIsolation ==
    /\ [](pc \in { "load", "fetch", "extract", "write" } =>
            (q = NumQueries + 1 /\ results = all_results))
    /\ [][(pc = "search" /\ pc' \in { "search", "load" }) =>
            /\ q' = q + 1
            /\ (pc' = "load") <=> (q = NumQueries)
            /\ IsPrefix(all_results, all_results')
            /\ lastOut'.raises => all_results' = all_results
            /\ ~lastOut'.raises =>
                  \A j \in DOMAIN lastOut'.records :
                      lastOut'.records[j].storageid # NoSid =>
                          \E k \in DOMAIN all_results' :
                              all_results'[k].storageid = lastOut'.records[j].storageid]_vars

\* the last query failed after earlier queries returned both documents,
\* which are the result set the run goes on with
C13_Witness ==
    /\ pc = "load"
    /\ lastOut.raises
    /\ Len(results) = 2

\* C14: the program pauses for REQUEST_DELAY once between every two
\* consecutive document fetches, whether the earlier document was extracted
\* or failed: document i is reached after i - 1 pauses; a retry of the same
\* document adds no pause; no pause follows the last document.
C14_InterRequestDelay ==
    /\ [](pc \in { "fetch", "extract" } => pauses = i - 1)
    /\ [](pc = "write" => pauses = IF results = << >> THEN 0 ELSE Len(results) - 1)
    /\ [][(pc = "fetch" /\ pc' = "fetch" /\ i' = i) => pauses' = pauses]_vars

\* C15: in every record the email holds exactly one '@' and no colon,
\* slash or whitespace, and the password is not empty.
C15_RecordShape ==
    \A k \in DOMAIN new_creds :
        LET e == new_creds[k].email
        IN  /\ Cardinality({ j \in DOMAIN e : e[j] = "@" }) = 1
            /\ \A j \in DOMAIN e : e[j] \notin { ":", "/" } /\ ~IsSpace(e[j])
            /\ new_creds[k].password # << >>

\* t occurs in l as a literal text, letter case ignored
Lower(t) == [ k \in DOMAIN t |-> ToLower(t[k]) ]
HasLiteral(l, t) ==
    \E k \in 0..(Len(l) - Len(t)) : SubSeq(Lower(l), k + 1, k + Len(t)) = Lower(t)

\* C16: a line that does not hold the target as a literal text (letter case
\* ignored, the target never read as a pattern) yields no record and adds
\* no key to the dedup store.
C16_TargetFilter ==
    [][(pc = "extract" /\ ~HasLiteral(Head(lines), Target)) =>
          (new_creds' = new_creds /\ seen' = seen)]_vars

\* a line with a well-formed credential of a domain the target matches only
\* as a pattern has been processed and left no record and no key
C16_Witness ==
    /\ pc = "write"
    /\ ContainsTargetAsPattern(line, Target)
    /\ ~HasLiteral(line, Target)
    /\ CredSearch(Strip(line)).found
    /\ new_creds = << >>
    /\ seen = {}

\* t without the colons and whitespace it ends in
TrimTrailing(t) ==
    LET keep == { k \in DOMAIN t : t[k] # ":" /\ ~IsSpace(t[k]) }
    IN  IF keep = {} THEN << >> ELSE SubSeq(t, 1, SetMax(keep))

\* the line of the example, its target and the fields of its record
ExampleLine ==
    << "h", "t", "t", "p", "s", ":", "/", "/", "s", "i", "t", "e", ".", "e",
       "x", "a", "m", "p", "l", "e", "/", "l", "o", "g", "i", "n", ":", "u",
       "s", "e", "r", "@", "c", "o", "r", "p", ".", "e", "x", "a", "m", "p",
       "l", "e", ":", "S", "u", "p", "3", "r", "S", "e", "c", "r", "e", "t",
       "!" >>
ExampleTarget ==
    << "c", "o", "r", "p", ".", "e", "x", "a", "m", "p", "l", "e" >>
ExampleUrl ==
    << "h", "t", "t", "p", "s", ":", "/", "/", "s", "i", "t", "e", ".", "e",
       "x", "a", "m", "p", "l", "e", "/", "l", "o", "g", "i", "n" >>
ExampleEmail ==
    << "u", "s", "e", "r", "@", "c", "o", "r", "p", ".", "e", "x", "a", "m",
       "p", "l", "e" >>
ExamplePassword ==
    << "S", "u", "p", "3", "r", "S", "e", "c", "r", "e", "t", "!" >>

\* C19: the url of a record is the text of the trimmed line before the
\* start of the match, with every colon and whitespace it ends in removed:
\* it never ends in a colon or whitespace and is empty when nothing precedes
\* the match; the line of the example yields the url, email and password of
\* the example.
C19_UrlExtraction ==
    /\ [](\A k \in DOMAIN new_creds :
            LET u == new_creds[k].url
            IN  u # << >> => (u[Len(u)] # ":" /\ ~IsSpace(u[Len(u)])))
    /\ [][(pc = "extract" /\ Len(new_creds') = Len(new_creds) + 1) =>
            LET ls == Strip(Head(lines))
                m == CredSearch(ls)
            IN  new_creds'[Len(new_creds')].url =
                    TrimTrailing(SubSeq(ls, 1, m.start - 1))]_vars
    /\ [](LET r == ProcessLine(ExampleLine, ExampleTarget, << "A" >>, {})
          IN  /\ r.emit
              /\ r.rec.url = ExampleUrl
              /\ r.rec.email = ExampleEmail
              /\ r.rec.password = ExamplePassword)

\* C17: in every format a run opens the destination at most twice, once to
\* load the dedup store and once to write.
C17_DestinationOpens == opens <= 2

\* the positions in t at which a header row of the csv writer starts a row
HeaderAt(t) ==
    LET h == CsvRow(CsvHeader)
    IN  { k \in 1..(Len(t) - Len(h) + 1) :
            /\ SubSeq(t, k, k + Len(h) - 1) = h
            /\ (k = 1 \/ t[k - 1] = LF) }

\* C18: a csv write puts the header row first when the destination does not
\* exist or is empty, and adds no header row to a destination that holds
\* something; so a destination never holds more than one header row, which
\* is then its first row, after any number of runs.
C18_CsvHeaderOnce ==
    /\ [](HeaderAt(FileText(file)) \subseteq { 1 })
    /\ [][(pc = "write" /\ format = "csv" /\ wrote' = wrote + 1) =>
            /\ IsPrefix(FileText(file), FileText(file'))
            /\ HeaderAt(FileText(file')) =
                   IF FileText(file) = << >> THEN { 1 } ELSE HeaderAt(FileText(file))]_vars

\* the second of two csv runs appended rows to the destination the first
\* created, which holds one header row, the first row
C18_Witness ==
    /\ run = 2
    /\ pc = "done"
    /\ format = "csv"
    /\ prev.format = "csv"
    /\ prev.wrote = 1
    /\ wrote = 1
    /\ HeaderAt(FileText(file)) = { 1 }

\* C20: a run that found no new record leaves the destination as it was, in
\* every format: the destination changes only in the write block of a run
\* whose new_creds is not empty, and the write block of a run with an empty
\* new_creds neither creates nor rewrites it.
C20_NoNewNoWrite ==
    /\ [][file' # file => (pc = "write" /\ new_creds # << >>)]_vars
    /\ [][(pc = "write" /\ pc' = "done" /\ new_creds = << >>) =>
            (file' = file /\ wrote' = wrote /\ opens' = opens)]_vars

\* a csv run processed documents, found nothing new and ended with status 0:
\* the destination, absent before, was not created
C20_Witness ==
    /\ pc = "done"
    /\ format = "csv"
    /\ results # << >>
    /\ AllTerminal
    /\ new_creds = << >>
    /\ exitCode = 0
    /\ file = Absent

====
